---- MODULE Spec2Model ----
(***************************************************************************)
(* commitvalidator: a webhook receiver for pull-request events.           *)
(*                                                                         *)
(* The repository holds two builds of the same program: src/main.go and   *)
(* src/unnamed/part_000.  They differ in the accepted actions, in the     *)
(* default of validatePR and in the "enhanced reporting" block; the       *)
(* variable `variant` selects the build.                                  *)
(*                                                                         *)
(* Texts (request bodies, JSON documents, URLs, response bodies) are      *)
(* strings over printable ASCII and are processed character by character, *)
(* as the Go standard library does on that alphabet.                      *)
(***************************************************************************)
EXTENDS Integers, Sequences, FiniteSets, TLC

VARIABLES variant, token, hs

vars == <<variant, token, hs>>

(***************************************************************************)
(* Characters and strings                                                  *)
(***************************************************************************)
\* The i-th character of s as a string of length 1, "" beyond the ends of s.
Char(s, i) == IF i >= 1 /\ i <= Len(s) THEN SubSeq(s, i, i) ELSE ""

\* The printable ASCII characters 0x20..0x5f and 0x61..0x7e, in byte order (0x60,
\* the backquote, cannot be written in a string of this language and is left out
\* of the alphabet).
AsciiLow == " !\"#$%&'()*+,-./0123456789:;<=>?@ABCDEFGHIJKLMNOPQRSTUVWXYZ[\\]^_"

AsciiHigh == "abcdefghijklmnopqrstuvwxyz{|}~"

Digits == "0123456789"

HexDigits == "0123456789abcdef"

UpperLetters == "ABCDEFGHIJKLMNOPQRSTUVWXYZ"

LowerLetters == "abcdefghijklmnopqrstuvwxyz"

\* strings.IndexByte: the first position of character c in s, 0 when absent.
IndexOf(c, s) ==
    IF \E i \in 1..Len(s) : Char(s, i) = c
    THEN CHOOSE i \in 1..Len(s) : Char(s, i) = c /\ \A j \in 1..(i - 1) : Char(s, j) # c
    ELSE 0

\* strings.Index: the first position at which sub occurs in s, 0 when absent.
Index(s, sub) ==
    IF \E i \in 1..(Len(s) - Len(sub) + 1) : SubSeq(s, i, i + Len(sub) - 1) = sub
    THEN CHOOSE i \in 1..(Len(s) - Len(sub) + 1) :
            /\ SubSeq(s, i, i + Len(sub) - 1) = sub
            /\ \A j \in 1..(i - 1) : SubSeq(s, j, j + Len(sub) - 1) # sub
    ELSE 0

Contains(s, sub) == Index(s, sub) # 0

\* strings.Cut: the text before and after the first sep, and whether sep was found.
Cut(s, sep) ==
    LET i == Index(s, sep)
    IN  IF i = 0
        THEN [before |-> s, after |-> "", found |-> FALSE]
        ELSE [before |-> SubSeq(s, 1, i - 1),
              after  |-> SubSeq(s, i + Len(sep), Len(s)),
              found  |-> TRUE]

\* The backspace character, byte 0x08 (the literal holds that one byte).
Backspace == ""

\* The byte value of a character of the alphabet, and back.
Ord(c) == CASE IndexOf(c, AsciiLow) # 0 -> 31 + IndexOf(c, AsciiLow)
            [] IndexOf(c, AsciiHigh) # 0 -> 96 + IndexOf(c, AsciiHigh)
            [] c = Backspace -> 8
            [] c = "\t" -> 9
            [] c = "\n" -> 10
            [] c = "\f" -> 12
            [] c = "\r" -> 13

Chr(n) == CASE n \in 32..95  -> Char(AsciiLow, n - 31)
            [] n \in 97..126 -> Char(AsciiHigh, n - 96)
            [] n = 8  -> Backspace
            [] n = 9  -> "\t"
            [] n = 10 -> "\n"
            [] n = 12 -> "\f"
            [] n = 13 -> "\r"

ToLowerChar(c) ==
    IF IndexOf(c, UpperLetters) # 0 THEN Char(LowerLetters, IndexOf(c, UpperLetters)) ELSE c

\* Every character of s lowered (the two halves of s are lowered in turn).
RECURSIVE ToLower(_)
ToLower(s) == IF Len(s) <= 1 THEN ToLowerChar(s)
              ELSE ToLower(SubSeq(s, 1, Len(s) \div 2))
                   \o ToLower(SubSeq(s, (Len(s) \div 2) + 1, Len(s)))

IsDigit(c) == IndexOf(c, Digits) # 0

ishex(c) == IndexOf(ToLowerChar(c), HexDigits) # 0

unhex(c) == IndexOf(ToLowerChar(c), HexDigits) - 1

\* A control byte (below 0x20, or 0x7f); of the alphabet these are \b \t \n \r \f.
IsCTL(c) == c \in {Backspace, "\t", "\n", "\r", "\f"}

\* strconv.Itoa, as the %d verb of fmt prints an int.
RECURSIVE ItoaNat(_)
ItoaNat(n) == IF n < 10 THEN Char(Digits, n + 1)
              ELSE ItoaNat(n \div 10) \o Char(Digits, (n % 10) + 1)

Itoa(n) == IF n < 0 THEN "-" \o ItoaNat(0 - n) ELSE ItoaNat(n)

(***************************************************************************)
(* net/url: query unescaping, ParseQuery, and the validity of a URL for    *)
(* http.NewRequest                                                         *)
(***************************************************************************)
\* The first pass of url.unescape: every % is followed by two hex digits. (The
\* scan skips the two digits after a %; a hex digit is never a %, so every % of s
\* is met by the scan.)
ValidEscapes(s) ==
    \A i \in 1..Len(s) :
        Char(s, i) = "%" => i + 2 <= Len(s) /\ ishex(Char(s, i + 1)) /\ ishex(Char(s, i + 2))

\* The second pass of url.unescape in query-component mode, for s with valid
\* escapes: %XX is the byte XX, + is a space, any other character stays. A long s
\* is decoded in two parts, cut at a place k where no escape is cut in two.
RECURSIVE UnescapeBytes(_)
UnescapeBytes(s) ==
    IF s = "" THEN ""
    ELSE IF Char(s, 1) = "%" /\ Len(s) = 3
         THEN Chr(16 * unhex(Char(s, 2)) + unhex(Char(s, 3)))
    ELSE IF Len(s) = 1
         THEN (IF s = "+" THEN " " ELSE s)
    ELSE LET m == IF Len(s) <= 3 THEN 1 ELSE Len(s) \div 2
             k == IF Char(s, m) = "%" THEN m - 1
                  ELSE IF Char(s, m - 1) = "%" THEN m + 1
                  ELSE m
         IN  UnescapeBytes(SubSeq(s, 1, k)) \o UnescapeBytes(SubSeq(s, k + 1, Len(s)))

QueryUnescape(s) ==
    IF ValidEscapes(s) THEN [err |-> FALSE, s |-> UnescapeBytes(s)]
    ELSE [err |-> TRUE, s |-> ""]

\* url.QueryEscape, which a sender applies to a form value: unreserved characters
\* stay, a space becomes +, every other byte becomes %XX (upper-case hex).
shouldEscape(c) ==
    ~ (\/ IndexOf(c, UpperLetters) # 0
       \/ IndexOf(c, LowerLetters) # 0
       \/ IsDigit(c)
       \/ c \in {"-", "_", ".", "~"})

UpperHex == "0123456789ABCDEF"

EscapeChar(c) ==
    IF c = " " THEN "+"
    ELSE IF shouldEscape(c)
         THEN "%" \o Char(UpperHex, (Ord(c) \div 16) + 1) \o Char(UpperHex, (Ord(c) % 16) + 1)
         ELSE c

RECURSIVE QueryEscape(_)
QueryEscape(s) ==
    IF s = "" THEN ""
    ELSE IF Len(s) = 1 THEN EscapeChar(s)
    ELSE QueryEscape(SubSeq(s, 1, Len(s) \div 2))
         \o QueryEscape(SubSeq(s, (Len(s) \div 2) + 1, Len(s)))

\* url.ParseQuery: the key/value pairs of a query, in order, and whether any
\* pair was rejected (the first error is kept, the other pairs are still parsed).
RECURSIVE ParseQuery(_)
\* The pair with unescaped key k and value v, before the pairs of the rest.
AddPair(k, v, rest) ==
    IF k.err \/ v.err THEN [err |-> TRUE, pairs |-> rest.pairs]
    ELSE [err |-> rest.err, pairs |-> <<[key |-> k.s, value |-> v.s]>> \o rest.pairs]

\* One segment (the text between two &) cut at its first =.
PairOf(kv, rest) == AddPair(QueryUnescape(kv.before), QueryUnescape(kv.after), rest)

ParseSegment(seg, rest) ==
    IF Contains(seg, ";") THEN [err |-> TRUE, pairs |-> rest.pairs]
    ELSE IF seg = "" THEN rest
    ELSE PairOf(Cut(seg, "="), rest)

ParseQueryCut(c) == ParseSegment(c.before, ParseQuery(c.after))

ParseQuery(query) ==
    IF query = "" THEN [err |-> FALSE, pairs |-> <<>>] ELSE ParseQueryCut(Cut(query, "&"))

\* url.Values.Get: the first value of key, "" when the key is absent.
ValuesGet(pairs, key) ==
    IF \E i \in 1..Len(pairs) : pairs[i].key = key
    THEN pairs[CHOOSE i \in 1..Len(pairs) :
                   pairs[i].key = key /\ \A j \in 1..(i - 1) : pairs[j].key # key].value
    ELSE ""

\* url.Parse as http.NewRequest calls it, for a URL of the fixed host
\* api.github.com: the URL is cut at the first #; the text before it holds no
\* control byte and has valid %-escapes in its path (the text before the first ?);
\* of the fragment (the text after the #) only the %-escapes are checked.
URLParseOK(url) ==
    LET f == Cut(url, "#")
        q == Cut(f.before, "?")
    IN  /\ \A i \in 1..Len(f.before) : ~ IsCTL(Char(f.before, i))
        /\ ValidEscapes(q.before)
        /\ ValidEscapes(f.after)

(***************************************************************************)
(* encoding/json: the syntax check of json.Unmarshal (checkValid) and the  *)
(* decoding of the value into the handler's prEvent struct                 *)
(***************************************************************************)
IsSpace(c) == c \in {" ", "\t", "\n", "\r"}

\* The first position from i on that holds no JSON white space.
RECURSIVE SkipWS(_, _)
SkipWS(s, i) == IF IsSpace(Char(s, i)) THEN SkipWS(s, i + 1) ELSE i

\* The first position from i on that holds no digit.
RECURSIVE DigitsEnd(_, _)
DigitsEnd(s, i) == IF IsDigit(Char(s, i)) THEN DigitsEnd(s, i + 1) ELSE i

\* The value of a string of digits.
RECURSIVE Atoi(_)
Atoi(d) == IF d = "" THEN 0
           ELSE 10 * Atoi(SubSeq(d, 1, Len(d) - 1)) + (IndexOf(Char(d, Len(d)), Digits) - 1)

JFail == [ok |-> FALSE, next |-> 0, v |-> [t |-> "invalid"]]

\* A number literal at position i: -?(0|[1-9][0-9]*)(\.[0-9]+)?([eE][+-]?[0-9]+)?
\* j0: the first digit; intEnd, fracEnd, expEnd: the ends of the integer part, of
\* the fraction and of the exponent; e0: the first digit of the exponent.
\* isInt: the literal has neither fraction nor exponent, so strconv.ParseInt reads it.
NumberValue(s, i, j0, intEnd, hasFrac, hasExp) ==
    [t |-> "num", isInt |-> ~ hasFrac /\ ~ hasExp,
     n |-> IF Char(s, i) = "-" THEN 0 - Atoi(SubSeq(s, j0, intEnd - 1))
           ELSE Atoi(SubSeq(s, j0, intEnd - 1))]

NumberEnd(s, i, j0, intEnd, fracEnd, e0, expEnd) ==
    IF \/ intEnd = j0
       \/ Char(s, intEnd) = "." /\ fracEnd = intEnd + 1
       \/ Char(s, fracEnd) \in {"e", "E"} /\ expEnd = e0
    THEN JFail
    ELSE [ok |-> TRUE, next |-> expEnd,
          v |-> NumberValue(s, i, j0, intEnd, Char(s, intEnd) = ".",
                            Char(s, fracEnd) \in {"e", "E"})]

NumberExp(s, i, j0, intEnd, fracEnd, e0) ==
    NumberEnd(s, i, j0, intEnd, fracEnd, e0,
              IF Char(s, fracEnd) \in {"e", "E"} THEN DigitsEnd(s, e0) ELSE fracEnd)

NumberFrac(s, i, j0, intEnd, fracEnd) ==
    NumberExp(s, i, j0, intEnd, fracEnd,
              IF Char(s, fracEnd + 1) \in {"+", "-"} THEN fracEnd + 2 ELSE fracEnd + 1)

NumberInt(s, i, j0, intEnd) ==
    NumberFrac(s, i, j0, intEnd,
               IF Char(s, intEnd) = "." THEN DigitsEnd(s, intEnd + 1) ELSE intEnd)

NumberSign(s, i, j0) ==
    NumberInt(s, i, j0, IF Char(s, j0) = "0" THEN j0 + 1 ELSE DigitsEnd(s, j0))

ParseNumber(s, i) == NumberSign(s, i, IF Char(s, i) = "-" THEN i + 1 ELSE i)

\* The characters of a string literal from position i (after the opening quote)
\* to the closing quote, with the escapes decoded.
RECURSIVE StringBody(_, _)
\* The decoded character c before the rest of the literal.
Prepend(c, rest) == [rest EXCEPT !.s = c \o @]

\* The character an escape \e stands for.
EscapeValue(e) ==
    CASE e \in {"\"", "\\", "/"} -> e
      [] e = "n" -> "\n"
      [] e = "t" -> "\t"
      [] e = "r" -> "\r"
      [] e = "f" -> "\f"
      [] e = "b" -> Backspace

\* The character \uXXXX stands for, h the four hex digits.
UnicodeValue(h) ==
    Chr(4096 * unhex(Char(h, 1)) + 256 * unhex(Char(h, 2))
        + 16 * unhex(Char(h, 3)) + unhex(Char(h, 4)))

BadString == [ok |-> FALSE, next |-> 0, s |-> ""]

\* The literal from the escape at position i on, e the character after the backslash.
StringEscape(s, i, e, h) ==
    IF e \in {"\"", "\\", "/", "b", "f", "n", "r", "t"}
    THEN Prepend(EscapeValue(e), StringBody(s, i + 2))
    ELSE IF e = "u" /\ i + 5 <= Len(s) /\ \A k \in 1..4 : ishex(Char(h, k))
         THEN Prepend(UnicodeValue(h), StringBody(s, i + 6))
         ELSE BadString

StringChar(s, i, c) ==
    IF c = "" \/ IsCTL(c) THEN BadString
    ELSE IF c = "\"" THEN [ok |-> TRUE, next |-> i + 1, s |-> ""]
    ELSE IF c # "\\" THEN Prepend(c, StringBody(s, i + 1))
    ELSE StringEscape(s, i, Char(s, i + 1), SubSeq(s, i + 2, i + 5))

StringBody(s, i) == StringChar(s, i, Char(s, i))

StringOf(b) ==
    IF b.ok THEN [ok |-> TRUE, next |-> b.next, v |-> [t |-> "str", s |-> b.s]] ELSE JFail

ParseString(s, i) == IF Char(s, i) = "\"" THEN StringOf(StringBody(s, i + 1)) ELSE JFail

ParseLiteral(s, i, word, t) ==
    IF i + Len(word) - 1 <= Len(s) /\ SubSeq(s, i, i + Len(word) - 1) = word
    THEN [ok |-> TRUE, next |-> i + Len(word), v |-> [t |-> t]]
    ELSE JFail

RECURSIVE ParseValue(_, _), ParseMembers(_, _), ParseElements(_, _)
BadMembers == [ok |-> FALSE, next |-> 0, members |-> <<>>]

\* The member this before the members more that follow a comma.
MembersMore(this, more) ==
    IF more.ok THEN [ok |-> TRUE, next |-> more.next, members |-> this \o more.members]
    ELSE BadMembers

\* After a member's value: the closing brace at position sep, or a comma and more members.
MembersSep(s, this, sep) ==
    IF Char(s, sep) = "}" THEN [ok |-> TRUE, next |-> sep + 1, members |-> this]
    ELSE IF Char(s, sep) = "," THEN MembersMore(this, ParseMembers(s, SkipWS(s, sep + 1)))
    ELSE BadMembers

MembersAfterValue(s, k, val) ==
    IF val.ok THEN MembersSep(s, <<[k |-> k.v.s, v |-> val.v]>>, SkipWS(s, val.next))
    ELSE BadMembers

MembersAfterColon(s, k, colon) ==
    IF Char(s, colon) = ":" THEN MembersAfterValue(s, k, ParseValue(s, SkipWS(s, colon + 1)))
    ELSE BadMembers

MembersAfterKey(s, k) == IF k.ok THEN MembersAfterColon(s, k, SkipWS(s, k.next)) ELSE BadMembers

\* The members of an object from position i (at a key) to the closing brace.
ParseMembers(s, i) == MembersAfterKey(s, ParseString(s, i))

BadElements == [ok |-> FALSE, next |-> 0]

ElementsSep(s, sep) ==
    IF Char(s, sep) = "]" THEN [ok |-> TRUE, next |-> sep + 1]
    ELSE IF Char(s, sep) = "," THEN ParseElements(s, SkipWS(s, sep + 1))
    ELSE BadElements

ElementsAfterValue(s, val) == IF val.ok THEN ElementsSep(s, SkipWS(s, val.next)) ELSE BadElements

\* The elements of an array from position i to the closing bracket.
ParseElements(s, i) == ElementsAfterValue(s, ParseValue(s, i))

ObjectOf(m) ==
    IF m.ok THEN [ok |-> TRUE, next |-> m.next, v |-> [t |-> "obj", members |-> m.members]]
    ELSE JFail

\* An object whose first non-space position after the brace is j.
ParseObject(s, j) ==
    IF Char(s, j) = "}"
    THEN [ok |-> TRUE, next |-> j + 1, v |-> [t |-> "obj", members |-> <<>>]]
    ELSE ObjectOf(ParseMembers(s, j))

ArrayOf(e) == IF e.ok THEN [ok |-> TRUE, next |-> e.next, v |-> [t |-> "arr"]] ELSE JFail

ParseArray(s, j) ==
    IF Char(s, j) = "]" THEN [ok |-> TRUE, next |-> j + 1, v |-> [t |-> "arr"]]
    ELSE ArrayOf(ParseElements(s, j))

ValueAt(s, i, c) ==
    CASE c = "{" -> ParseObject(s, SkipWS(s, i + 1))
      [] c = "[" -> ParseArray(s, SkipWS(s, i + 1))
      [] c = "\"" -> ParseString(s, i)
      [] c = "-" \/ IsDigit(c) -> ParseNumber(s, i)
      [] c = "t" -> ParseLiteral(s, i, "true", "bool")
      [] c = "f" -> ParseLiteral(s, i, "false", "bool")
      [] c = "n" -> ParseLiteral(s, i, "null", "null")
      [] OTHER -> JFail

\* One JSON value starting at position i (no leading white space).
ParseValue(s, i) == ValueAt(s, i, Char(s, i))

TopLevel(data, r) == IF r.ok /\ SkipWS(data, r.next) = Len(data) + 1 THEN r ELSE JFail

\* json.checkValid, with the value read: exactly one value, white space around it.
ParseJSON(data) == TopLevel(data, ParseValue(data, SkipWS(data, 1)))

\* A struct field found by its JSON name: exact, else case-insensitive.
FieldIs(key, name) == ToLower(key) = name

\* A JSON value decoded into a Go string field: null leaves the field, any other
\* type is an UnmarshalTypeError (saved; decoding goes on).
DecodeString(cur, v) ==
    CASE v.t = "str"  -> [err |-> FALSE, val |-> v.s]
      [] v.t = "null" -> [err |-> FALSE, val |-> cur]
      [] OTHER        -> [err |-> TRUE, val |-> cur]

\* A JSON value decoded into a Go int field.
DecodeInt(cur, v) ==
    CASE v.t = "num" /\ v.isInt -> [err |-> FALSE, val |-> v.n]
      [] v.t = "null"           -> [err |-> FALSE, val |-> cur]
      [] OTHER                  -> [err |-> TRUE, val |-> cur]

\* A JSON value decoded into a struct: the members of an object are applied
\* in order by Step; null leaves the struct; any other type is an error.
DecodeStruct(Step(_, _), cur, v) ==
    LET n == IF v.t = "obj" THEN Len(v.members) ELSE 0
        F[i \in 0..n] == IF i = 0 THEN [err |-> FALSE, val |-> cur]
                         ELSE LET r == Step(F[i - 1].val, v.members[i])
                              IN  [err |-> F[i - 1].err \/ r.err, val |-> r.val]
    IN  CASE v.t = "obj"  -> F[n]
          [] v.t = "null" -> [err |-> FALSE, val |-> cur]
          [] OTHER        -> [err |-> TRUE, val |-> cur]

WithLogin(cur, r) == [err |-> r.err, val |-> [cur EXCEPT !.Login = r.val]]

OwnerStep(cur, m) ==
    IF FieldIs(m.k, "login") THEN WithLogin(cur, DecodeString(cur.Login, m.v))
    ELSE [err |-> FALSE, val |-> cur]

WithName(cur, r) == [err |-> r.err, val |-> [cur EXCEPT !.Name = r.val]]

WithOwner(cur, r) == [err |-> r.err, val |-> [cur EXCEPT !.Owner = r.val]]

RepositoryStep(cur, m) ==
    IF FieldIs(m.k, "name") THEN WithName(cur, DecodeString(cur.Name, m.v))
    ELSE IF FieldIs(m.k, "owner") THEN WithOwner(cur, DecodeStruct(OwnerStep, cur.Owner, m.v))
    ELSE [err |-> FALSE, val |-> cur]

WithNumber(cur, r) == [err |-> r.err, val |-> [cur EXCEPT !.Number = r.val]]

PullRequestStep(cur, m) ==
    IF FieldIs(m.k, "number") THEN WithNumber(cur, DecodeInt(cur.Number, m.v))
    ELSE [err |-> FALSE, val |-> cur]

WithAction(cur, r) == [err |-> r.err, val |-> [cur EXCEPT !.Action = r.val]]

WithPullRequest(cur, r) == [err |-> r.err, val |-> [cur EXCEPT !.PullRequest = r.val]]

WithRepository(cur, r) == [err |-> r.err, val |-> [cur EXCEPT !.Repository = r.val]]

EventStep(cur, m) ==
    IF FieldIs(m.k, "action") THEN WithAction(cur, DecodeString(cur.Action, m.v))
    ELSE IF FieldIs(m.k, "number") THEN WithNumber(cur, DecodeInt(cur.Number, m.v))
    ELSE IF FieldIs(m.k, "pull_request")
    THEN WithPullRequest(cur, DecodeStruct(PullRequestStep, cur.PullRequest, m.v))
    ELSE IF FieldIs(m.k, "repository")
    THEN WithRepository(cur, DecodeStruct(RepositoryStep, cur.Repository, m.v))
    ELSE [err |-> FALSE, val |-> cur]

\* The zero value of the handler's prEvent struct.
ZeroEvent ==
    [Action |-> "", Number |-> 0, PullRequest |-> [Number |-> 0],
     Repository |-> [Name |-> "", Owner |-> [Login |-> ""]]]

Decoded(d) == [err |-> d.err, ev |-> d.val]

UnmarshalValue(r) ==
    IF r.ok THEN Decoded(DecodeStruct(EventStep, ZeroEvent, r.v))
    ELSE [err |-> TRUE, ev |-> ZeroEvent]

\* json.Unmarshal(payload, &prEvent): a syntax error, or the first type error, or
\* the decoded event.
Unmarshal(payload) == UnmarshalValue(ParseJSON(payload))

(***************************************************************************)
(* The two builds, the environment and the inbound requests                *)
(***************************************************************************)
MainGo == "src/main.go"

Part000 == "src/unnamed/part_000"

Variants == {MainGo, Part000}

\* The handler invocations of one run of the server.
Reqs == {"r1"}

\* os.Getenv("GITHUB_TOKEN"): a token, or "" when the variable is not set.
Tokens == {"ghp_t0k", ""}

FormContentType == "application/x-www-form-urlencoded"

\* JSON documents a sender may post.
Repo == "\"repository\":{\"name\":\"repo\",\"owner\":{\"login\":\"acme\"}}"

DocOpened == "{\"action\":\"opened\",\"pull_request\":{\"number\":42}," \o Repo \o "}"

DocReopened == "{\"action\":\"reopened\",\"number\":7," \o Repo \o "}"

DocBothNumbers == "{\"action\":\"opened\",\"number\":7,\"pull_request\":{\"number\":42}," \o Repo \o "}"

DocClosed == "{\"action\":\"closed\",\"pull_request\":{\"number\":42}," \o Repo \o "}"

DocNoNumber == "{\"action\":\"opened\"," \o Repo \o "}"

DocZeroNumbers == "{\"action\":\"reopened\",\"number\":0,\"pull_request\":{\"number\":0}," \o Repo \o "}"

DocNegative == "{ \"action\" : \"opened\", \"number\" : -1 }"

DocBadOwner == "{\"action\":\"opened\",\"number\":5,\"repository\":{\"name\":\"repo\",\"owner\":{\"login\":\"%zz\"}}}"

\* The owner's login decodes to a#, a tab, b: a control byte after a #.
DocFragmentOwner == "{\"action\":\"opened\",\"number\":5,\"repository\":{\"name\":\"repo\",\"owner\":{\"login\":\"a#\\tb\"}}}"

\* The owner's login decodes to a, a tab, b: a control byte before any #.
DocControlOwner == "{\"action\":\"opened\",\"number\":5,\"repository\":{\"name\":\"repo\",\"owner\":{\"login\":\"a\\tb\"}}}"

\* The action decodes to a, a backspace, c.
DocBackspace == "{\"action\":\"a\\bc\"}"

DocFoldedKeys == "{\"Action\":\"opened\",\"NUMBER\":9,\"labels\":[1,true,null]}"

DocNoAction == "{\"number\":3}"

DocNull == "null"

DocTruncated == "{\"action\":\"opened\",\"number\":5"

DocWrongType == "{\"action\":\"opened\",\"number\":\"42\"}"

DocFloat == "{\"action\":\"opened\",\"number\":4.2}"

DocArray == "[]"

Docs ==
    {DocOpened, DocReopened, DocBothNumbers, DocClosed, DocNoNumber, DocZeroNumbers,
     DocNegative, DocBadOwner, DocFragmentOwner, DocControlOwner, DocBackspace, DocFoldedKeys, DocNoAction, DocNull, DocTruncated,
     DocWrongType, DocFloat, DocArray, ""}

Request(method, contentType, rawQuery, body, readErr) ==
    [method |-> method, contentType |-> contentType, rawQuery |-> rawQuery,
     body |-> body, readErr |-> readErr]

\* A request whose body is the JSON document doc.
RawJSONRequest(doc) == Request("POST", "application/json", "", doc, FALSE)

\* A form-encoded request carrying payload=doc, under Content-Type header ct.
FormRequest(ct, doc) == Request("POST", ct, "", "payload=" \o QueryEscape(doc), FALSE)

\* The Content-Type headers of a form-encoded request: bare, and with a parameter.
FormContentTypes == {FormContentType, FormContentType \o "; charset=utf-8"}

\* The inbound requests of the model.
Requests ==
    {RawJSONRequest(d) : d \in Docs}
    \cup {FormRequest(ct, d) : ct \in FormContentTypes, d \in Docs}
    \cup {Request("POST", FormContentType, "", b, FALSE) :
            b \in {"", "other=1", "payload=", "payload=%zz", "a;b=1&payload=" \o QueryEscape(DocOpened),
                   "x=%4&payload=" \o QueryEscape(DocOpened),
                   "payload=" \o DocOpened,
                   "payload=" \o QueryEscape(DocClosed) \o "&payload=" \o QueryEscape(DocOpened)}}
    \cup {Request("POST", FormContentType, "payload=" \o QueryEscape(DocOpened), "other=1", FALSE),
          Request("POST", FormContentType, "payload=%", "payload=" \o QueryEscape(DocOpened), FALSE),
          Request("GET", FormContentType, "payload=" \o QueryEscape(DocReopened),
                  "payload=" \o QueryEscape(DocOpened), FALSE),
          Request("POST", FormContentType, "", "payload=" \o QueryEscape(DocOpened), TRUE),
          Request("POST", "application/json", "", DocOpened, TRUE),
          Request("POST", "", "", DocOpened, FALSE)}

(***************************************************************************)
(* net/http: the form of a request                                         *)
(***************************************************************************)
\* Request.ParseForm for a request whose Content-Type is the form type: the body
\* is read and parsed for POST, PUT and PATCH (post), then the URL's query; the
\* first error is returned, and r.Form holds the body's pairs before the query's.
FormOf(post, query) == [err |-> post.err \/ query.err, pairs |-> post.pairs \o query.pairs]

ParseForm(rq) ==
    FormOf(IF rq.method \notin {"POST", "PUT", "PATCH"} THEN [err |-> FALSE, pairs |-> <<>>]
           ELSE IF rq.readErr THEN [err |-> TRUE, pairs |-> <<>>]
           ELSE ParseQuery(rq.body),
           ParseQuery(rq.rawQuery))

\* Request.FormValue(key) once ParseForm has run and left form.
FormValue(form, key) == ValuesGet(form.pairs, key)

\* The payload of a form-encoded request whose parsed form is form.
FormPayload(form) ==
    IF form.err THEN [fail |-> "form", payload |-> ""]
    ELSE [fail |-> "", payload |-> FormValue(form, "payload")]

\* prWebhookHandler, payload extraction: the bytes handed to json.Unmarshal, or the
\* failure ("form": ParseForm failed; "read": the body could not be read).
ExtractPayload(rq) ==
    IF rq.contentType = FormContentType THEN FormPayload(ParseForm(rq))
    ELSE IF rq.readErr THEN [fail |-> "read", payload |-> ""]
    ELSE [fail |-> "", payload |-> rq.body]

(***************************************************************************)
(* The GitHub API as the handler sees it: changed files and responses      *)
(***************************************************************************)
MaxFiles == 2

PRFile(filename, additions, deletions, changes, patch) ==
    [Filename |-> filename, Additions |-> additions, Deletions |-> deletions,
     Changes |-> changes, Patch |-> patch]

\* The files a pull request of the model may change, in the order the API lists them.
FileUniverse ==
    <<PRFile("app1/mod/forbidden.txt", 1, 0, 1, ""),
      PRFile("app2/mod/b.go", 0, 2, 2, ""),
      PRFile("apps.json", 1, 1, 2, "+x"),
      PRFile("forbidden.txt", 3, 0, 3, ""),
      PRFile("ok.txt", 0, 1, 1, "")>>

\* The members of FileUniverse chosen by the index set I, in order.
RECURSIVE Pick(_)
Pick(I) ==
    IF I = {} THEN <<>>
    ELSE LET m == CHOOSE i \in I : \A j \in I : i <= j
         IN  <<FileUniverse[m]>> \o Pick(I \ {m})

FileLists == {Pick(I) : I \in {J \in SUBSET (1..Len(FileUniverse)) : Cardinality(J) <= MaxFiles}}

\* The answer to GET .../pulls/{n}/files: a transport error, or a status code with
\* a body that decodes to a file list or does not decode.
FetchResponses ==
    {[err |-> TRUE, code |-> 0, decodeErr |-> FALSE, files |-> <<>>],
     [err |-> FALSE, code |-> 404, decodeErr |-> FALSE, files |-> <<>>],
     [err |-> FALSE, code |-> 200, decodeErr |-> TRUE, files |-> <<>>]}
    \cup {[err |-> FALSE, code |-> 200, decodeErr |-> FALSE, files |-> fl] : fl \in FileLists}

\* The answer to GET .../pulls/{n}: as above, the body holding head.sha ("" when
\* the body has no head.sha).
LookupResponses ==
    {[err |-> TRUE, code |-> 0, decodeErr |-> FALSE, sha |-> ""],
     [err |-> FALSE, code |-> 404, decodeErr |-> FALSE, sha |-> ""],
     [err |-> FALSE, code |-> 200, decodeErr |-> TRUE, sha |-> ""]}
    \cup {[err |-> FALSE, code |-> 200, decodeErr |-> FALSE, sha |-> x] : x \in {"abc123", "", "%zz"}}

\* The answer to the status POST and to the closing PATCH; their bodies are not
\* decoded.
PlainResponses ==
    {[err |-> TRUE, code |-> 0, decodeErr |-> FALSE]}
    \cup {[err |-> FALSE, code |-> c, decodeErr |-> FALSE] : c \in {200, 201, 422}}

\* The apps.json file on the server's disk, as json.Unmarshal reads it: no apps
\* when the file is missing or does not parse.
App(name, whitelists, cmdbWhitelists, blacklists, cmdbBlacklists) ==
    [Name |-> name, Whitelists |-> whitelists, CMDBWhitelists |-> cmdbWhitelists,
     Blacklists |-> blacklists, CMDBBlacklists |-> cmdbBlacklists]

DiskStates == {<<>>, <<App("app1", {"s1", "s2"}, {"s3"}, {"s2"}, {})>>}

\* Server names in the order fmt prints the keys of a map (sorted).
ServerOrder == <<"s1", "s2", "s3">>

(***************************************************************************)
(* One handler invocation                                                  *)
(***************************************************************************)
StatusOK == 200

StatusCreated == 201

StatusBadRequest == 400

StatusInternalServerError == 500

\* The state of a handler invocation before the request arrives.
IdleHandler ==
    [pc |-> "idle",
     req |-> Request("", "", "", "", FALSE),
     extractFail |-> "", payload |-> "",
     unmarshalErr |-> FALSE, decoded |-> FALSE, ev |-> ZeroEvent,
     prNumber |-> 0, owner |-> "", repo |-> "",
     fetched |-> FALSE, files |-> <<>>,
     validated |-> FALSE, validationPassed |-> FALSE,
     status |-> "", description |-> "",
     sha |-> "",
     code |-> 0, body |-> "",
     calls |-> <<>>, answers |-> <<>>, ops |-> <<>>]

\* History of the invocation: the calls of and returns to the handler, and its
\* writes to the ResponseWriter.
Op(kind, fn, arg) == [kind |-> kind, fn |-> fn, arg |-> arg]

Log(h, kind, fn, arg) == [h EXCEPT !.ops = Append(@, Op(kind, fn, arg))]

\* fmt.Fprintf(w, ...): the first write sends the header with status 200.
Fprintf(h, text) ==
    [h EXCEPT !.code = IF @ = 0 THEN StatusOK ELSE @,
              !.body = @ \o text,
              !.ops  = Append(@, Op("write", "Fprintf", text))]

\* http.Error(w, msg, code): the header with the given status, then msg and a newline.
HttpError(h, msg, code) ==
    [h EXCEPT !.code = IF @ = 0 THEN code ELSE @,
              !.body = @ \o msg \o "\n",
              !.ops  = Append(@, Op("write", "Error", msg))]

\* The handler returns: net/http sends status 200 if nothing was written.
Return(h) == [h EXCEPT !.pc = "done", !.code = IF @ = 0 THEN StatusOK ELSE @]

\* An outbound HTTP request handed to client.Do.
Call(method, url, authorization, body) ==
    [method |-> method, url |-> url, authorization |-> authorization, body |-> body]

Do(h, call, pc) == [h EXCEPT !.calls = Append(@, call), !.pc = pc]

\* client.Do has returned: answers[i] is what came back for calls[i], a transport
\* error or a status code, and whether the body read from it failed to decode.
Answered(h, rsp) ==
    [h EXCEPT !.answers = Append(@, [err |-> rsp.err, code |-> rsp.code,
                                     decodeErr |-> rsp.decodeErr])]

\* strings/bytes.Split: the parts of s between the occurrences of sep.
RECURSIVE Split(_, _)
Split(s, sep) ==
    LET c == Cut(s, sep)
    IN  IF c.found THEN <<c.before>> \o Split(c.after, sep) ELSE <<s>>

\* The texts of parts joined by sep.
RECURSIVE Join(_, _)
Join(parts, sep) ==
    IF parts = <<>> THEN ""
    ELSE IF Len(parts) = 1 THEN parts[1]
    ELSE parts[1] \o sep \o Join(Tail(parts), sep)

\* "- %s (additions: %d, deletions: %d, changes: %d)" for a file under the given name.
FileLine(name, f) ==
    "- " \o name \o " (additions: " \o Itoa(f.Additions) \o ", deletions: "
         \o Itoa(f.Deletions) \o ", changes: " \o Itoa(f.Changes) \o ")\n"

\* The summary with the status of a passed validation written whatever the outcome.
FinishAsPassed(h) ==
    LET h1 == Fprintf(h, "PR #" \o Itoa(h.prNumber) \o " validation complete. Status: "
                          \o "success" \o "\n")
        h2 == Fprintf(h1, "Files changed in PR:\n")
        F[i \in 0..Len(h.files)] ==
            IF i = 0 THEN h2 ELSE Fprintf(F[i - 1], FileLine(h.files[i].Filename, h.files[i]))
    IN  Return(F[Len(h.files)])

\* The handler's last step: the summary written to the caller, one line per file.
Finish(h) ==
    LET h1 == Fprintf(h, "PR #" \o Itoa(h.prNumber) \o " validation complete. Status: "
                          \o h.status \o "\n")
        h2 == Fprintf(h1, "Files changed in PR:\n")
        F[i \in 0..Len(h.files)] ==
            IF i = 0 THEN h2 ELSE Fprintf(F[i - 1], FileLine(h.files[i].Filename, h.files[i]))
    IN  Return(F[Len(h.files)])

PullURL(owner, repo, prNumber) ==
    "https://api.github.com/repos/" \o owner \o "/" \o repo \o "/pulls/" \o Itoa(prNumber)

FilesURL(owner, repo, prNumber) == PullURL(owner, repo, prNumber) \o "/files"

StatusURL(owner, repo, sha) ==
    "https://api.github.com/repos/" \o owner \o "/" \o repo \o "/statuses/" \o sha

\* json.Marshal of the status map (keys in sorted order) and of the close map.
StatusBody(state, description) ==
    "{\"context\":\"commitvalidator\",\"description\":\"" \o description
        \o "\",\"state\":\"" \o state \o "\"}"

CloseBody == "{\"state\":\"closed\"}"

\* The Authorization header of updatePRStatus and closePullRequest.
TokenHeader == <<"token " \o token>>

\* The Authorization header of fetchPRFiles: none is set.
FetchHeader == <<>>

\* closePullRequest has returned.
AfterClose(h, err) ==
    Finish(Log(h, "return", "closePullRequest", IF err THEN "error" ELSE "nil"))

\* closePullRequest up to client.Do.
BeginClose(h) ==
    LET url == PullURL(h.owner, h.repo, h.prNumber)
        h1  == Log(h, "call", "closePullRequest", Itoa(h.prNumber))
    IN  IF URLParseOK(url)
        THEN Do(h1, Call("PATCH", url, TokenHeader, CloseBody), "close")
        ELSE AfterClose(h1, TRUE)

\* The close condition with its negation lost.
ShouldCloseOnPass(h) == h.validationPassed

\* The close condition dropped: the pull request is closed whatever validatePR said.
ShouldCloseAlways(h) == TRUE

\* Whether the handler closes the pull request once the status update has returned.
ShouldClose(h) == ~ h.validationPassed

\* The handler giving up when updatePRStatus returned an error.
AfterUpdateAbort(h, err) ==
    LET h1 == Log(h, "return", "updatePRStatus", IF err THEN "error" ELSE "nil")
    IN  IF err THEN Return(Fprintf(h1, "Error updating PR status"))
        ELSE IF ShouldClose(h1) THEN BeginClose(h1) ELSE Finish(h1)

\* updatePRStatus has returned: the error is logged, then the close, if any.
AfterUpdate(h, err) ==
    LET h1 == Log(h, "return", "updatePRStatus", IF err THEN "error" ELSE "nil")
    IN  IF ShouldClose(h1) THEN BeginClose(h1) ELSE Finish(h1)

\* updatePRStatus without the test of the lookup's status code.
AfterLookupAnyStatus(h, rsp) ==
    LET url == StatusURL(h.owner, h.repo, rsp.sha)
    IN  IF rsp.err \/ rsp.decodeErr THEN AfterUpdate(h, TRUE)
        ELSE IF ~ URLParseOK(url) THEN AfterUpdate([h EXCEPT !.sha = rsp.sha], TRUE)
        ELSE Do([h EXCEPT !.sha = rsp.sha],
                Call("POST", url, TokenHeader, StatusBody(h.status, h.description)), "post")

\* updatePRStatus from the answer of the lookup to the client.Do of the POST.
AfterLookup(h, rsp) ==
    LET url == StatusURL(h.owner, h.repo, rsp.sha)
    IN  IF rsp.err \/ rsp.code # StatusOK \/ rsp.decodeErr THEN AfterUpdate(h, TRUE)
        ELSE IF ~ URLParseOK(url) THEN AfterUpdate([h EXCEPT !.sha = rsp.sha], TRUE)
        ELSE Do([h EXCEPT !.sha = rsp.sha],
                Call("POST", url, TokenHeader, StatusBody(h.status, h.description)), "post")

\* updatePRStatus sending the status a second time when the first POST failed.
AfterPostRetry(h, rsp) ==
    IF (rsp.err \/ rsp.code # StatusCreated) /\ Cardinality({i \in 1..Len(h.calls) : h.calls[i].method = "POST"}) < 2
    THEN Do(h, h.calls[Len(h.calls)], "post")
    ELSE AfterUpdate(h, rsp.err \/ rsp.code # StatusCreated)

\* updatePRStatus from the answer of the POST.
AfterPost(h, rsp) == AfterUpdate(h, rsp.err \/ rsp.code # StatusCreated)

\* updatePRStatus up to the client.Do of the lookup.
BeginUpdate(h) ==
    LET url == PullURL(h.owner, h.repo, h.prNumber)
        h1  == Log(h, "call", "updatePRStatus", h.status)
    IN  IF URLParseOK(url)
        THEN Do(h1, Call("GET", url, TokenHeader, ""), "lookup")
        ELSE AfterUpdate(h1, TRUE)

\* validatePR of src/main.go: false when a file is named forbidden.txt, and false
\* after the loop.
validatePRMain(files) ==
    IF \E i \in 1..Len(files) : files[i].Filename = "forbidden.txt" THEN FALSE ELSE FALSE

\* validatePR of src/unnamed/part_000: false when a file is named forbidden.txt,
\* true after the loop.
validatePRPart000(files) ==
    IF \E i \in 1..Len(files) : files[i].Filename = "forbidden.txt" THEN FALSE ELSE TRUE

validatePR(files) ==
    IF variant = MainGo THEN validatePRMain(files) ELSE validatePRPart000(files)

\* The status and description the handler reports for a validation outcome.
StatusFor(passed) == IF passed THEN "success" ELSE "failure"

DescriptionFor(passed) == IF passed THEN "PR validation passed." ELSE "PR validation failed."

\* The handler from validatePR to the call of updatePRStatus.
Validate(h) ==
    LET passed == validatePR(h.files)
        h1 == Log(Log(h, "call", "validatePR", ""), "return", "validatePR",
                  IF passed THEN "true" ELSE "false")
    IN  BeginUpdate([h1 EXCEPT !.validated = TRUE, !.validationPassed = passed,
                               !.status = StatusFor(passed),
                               !.description = DescriptionFor(passed)])

\* Enhanced reporting (part_000): the files of the form app/module/file.
IsAppFile(f) == f.Filename # "apps.json" /\ Len(Split(f.Filename, "/")) >= 3

ChangedFiles(files) == SelectSeq(files, IsAppFile)

AppName(f) == Split(f.Filename, "/")[1]

ChangedAppNames(files) == {AppName(ChangedFiles(files)[i]) : i \in 1..Len(ChangedFiles(files))}

\* The orders in which ranging over changedAppsMap may yield the app names.
AppOrders(files) ==
    LET S == ChangedAppNames(files)
    IN  {o \in [1..Cardinality(S) -> S] : \A i, j \in 1..Cardinality(S) : o[i] = o[j] => i = j}

\* The patch of the last file named apps.json, "" when there is none.
AppsJsonPatch(files) ==
    LET I == {i \in 1..Len(files) : files[i].Filename = "apps.json"}
    IN  IF I = {} THEN "" ELSE files[CHOOSE i \in I : \A j \in I : j <= i].Patch

\* The servers an app impacts: white lists less black lists; and the map as %v prints it.
ImpactedServers(app) ==
    (app.Whitelists \cup app.CMDBWhitelists) \ (app.Blacklists \cup app.CMDBBlacklists)

TrueEntry(name) == name \o ":true"

MapText(servers) ==
    LET present(name) == name \in servers
        keys == SelectSeq(ServerOrder, present)
    IN  "map[" \o Join([i \in 1..Len(keys) |-> TrueEntry(keys[i])], " ") \o "]"

\* The enhanced-reporting block of part_000 (lines 87 to 183) up to its read of the
\* apps.json on disk: what it writes to the caller about the changed apps and the
\* patch of apps.json. order: the order of the changed apps.
ReportChanges(h, order) ==
    LET cf == ChangedFiles(h.files)
        patch == AppsJsonPatch(h.files)
        a1 == Fprintf(h, "Apps changed in PR: [" \o Join(order, " ") \o "]\n")
        a2 == Fprintf(a1, "Changed modules and files:\n")
        A[i \in 0..Len(cf)] ==
            IF i = 0 THEN a2
            ELSE LET parts == Split(cf[i].Filename, "/")
                 IN  Fprintf(A[i - 1],
                             FileLine(parts[1] \o "/" \o parts[2] \o "/" \o parts[3], cf[i]))
        h1 == IF Len(order) > 0 THEN A[Len(cf)] ELSE h
    IN  IF patch # "" THEN Fprintf(h1, "apps.json changes:\n" \o patch \o "\n") ELSE h1

\* The rest of the block, once ioutil.ReadFile has returned: the impacted servers
\* of each app. disk: the apps of the apps.json on disk.
ReportImpact(h, disk) ==
    LET B[i \in 0..Len(disk)] ==
            IF i = 0 THEN h
            ELSE Fprintf(Fprintf(B[i - 1], "App: " \o disk[i].Name \o "\n"),
                         "Impacted servers: " \o MapText(ImpactedServers(disk[i])) \o "\n")
    IN  B[Len(disk)]

\* Whether this build has the enhanced-reporting block.
HasEnhancedReporting == variant = Part000

\* The handler after a successful fetch, up to the call of updatePRStatus or, in
\* the enhanced-reporting block with a patch of apps.json, up to ioutil.ReadFile.
AfterFetchOK(h, files, order) ==
    LET h1 == [Log(h, "return", "fetchPRFiles", "nil") EXCEPT !.fetched = TRUE, !.files = files]
    IN  IF ~ HasEnhancedReporting THEN Validate(h1)
        ELSE IF AppsJsonPatch(files) = "" THEN Validate(ReportChanges(h1, order))
        ELSE [ReportChanges(h1, order) EXCEPT !.pc = "readfile"]

\* The handler from the return of ioutil.ReadFile to the call of updatePRStatus.
AfterReadFile(h, disk) == Validate(ReportImpact(h, disk))

\* The handler going on with the empty list when fetchPRFiles returned an error.
AfterFetchErrorIgnored(h) == Validate(Log(h, "return", "fetchPRFiles", "error"))

\* The handler after a failed fetch.
AfterFetchError(h) ==
    Return(Fprintf(Log(h, "return", "fetchPRFiles", "error"), "Error fetching PR files"))

\* fetchPRFiles from the answer of the GET.
FetchFailed(rsp) == rsp.err \/ rsp.code # StatusOK \/ rsp.decodeErr

\* fetchPRFiles up to client.Do.
BeginFetch(h) ==
    LET url == FilesURL(h.owner, h.repo, h.prNumber)
        h1  == Log(h, "call", "fetchPRFiles", Itoa(h.prNumber))
    IN  IF URLParseOK(url)
        THEN Do(h1, Call("GET", url, FetchHeader, ""), "fetch")
        ELSE AfterFetchError(h1)

\* The action filter letting every pull-request action through.
AcceptedActionsAll == {"opened", "reopened", "closed", "synchronize", ""}

\* The actions this build handles.
AcceptedActions == IF variant = MainGo THEN {"opened"} ELSE {"opened", "reopened"}

\* prNumber resolved the other way round: the top-level number first.
ResolveNumberTopFirst(ev) == IF ev.Number = 0 THEN ev.PullRequest.Number ELSE ev.Number

\* prNumber: pull_request.number, or the top-level number when that is 0.
ResolveNumber(ev) == IF ev.PullRequest.Number = 0 THEN ev.Number ELSE ev.PullRequest.Number

\* The handler without the check of a missing pull-request number.
ProcessAnyNumber(h, ev) ==
    LET h1 == [h EXCEPT !.decoded = TRUE, !.ev = ev]
    IN  IF ev.Action \notin AcceptedActions
        THEN Return(Fprintf(h1, "Ignoring PR event with action: " \o ev.Action))
        ELSE BeginFetch([h1 EXCEPT !.prNumber = ResolveNumber(ev),
                                   !.owner = ev.Repository.Owner.Login,
                                   !.repo = ev.Repository.Name])

\* The handler from the decoded event to the call of fetchPRFiles.
Process(h, ev) ==
    LET h1 == [h EXCEPT !.decoded = TRUE, !.ev = ev]
    IN  IF ev.Action \notin AcceptedActions
        THEN Return(Fprintf(h1, "Ignoring PR event with action: " \o ev.Action))
        ELSE IF ResolveNumber(ev) = 0
        THEN Return(Fprintf(h1, "No PR number found"))
        ELSE BeginFetch([h1 EXCEPT !.prNumber = ResolveNumber(ev),
                                   !.owner = ev.Repository.Owner.Login,
                                   !.repo = ev.Repository.Name])

\* The handler going on with whatever json.Unmarshal left in prEvent.
HandleEventUnchecked(h, u) == Process([h EXCEPT !.unmarshalErr = u.err], u.ev)

\* The handler once json.Unmarshal has returned u.
HandleEvent(h, u) ==
    IF u.err
    THEN Return(Fprintf([h EXCEPT !.unmarshalErr = TRUE],
                        "Webhook received, but could not parse PR event"))
    ELSE Process(h, u.ev)

\* The handler once the payload is extracted, or not.
HandlePayload(h, x) ==
    IF x.fail = "form"
    THEN Return(HttpError([h EXCEPT !.extractFail = "form"],
                          "Could not parse form", StatusBadRequest))
    ELSE IF x.fail = "read"
    THEN Return(HttpError([h EXCEPT !.extractFail = "read"],
                          "Could not read request body", StatusInternalServerError))
    ELSE HandleEvent([h EXCEPT !.payload = x.payload], Unmarshal(x.payload))

\* prWebhookHandler from its entry to its first outbound call, or to its return.
Handle(rq) == HandlePayload([IdleHandler EXCEPT !.req = rq], ExtractPayload(rq))

(***************************************************************************)
(* Actions                                                                 *)
(***************************************************************************)
Init ==
    /\ variant \in Variants
    /\ token \in Tokens
    /\ hs = [r \in Reqs |-> IdleHandler]

\* The event kept in one place for all invocations: a request that arrives is
\* taken up by every invocation that has none yet.
\* The request rq arrives for invocation r, and the handler runs to its first
\* outbound call or to its end.
Arrive(r, rq) ==
    /\ hs[r].pc = "idle"
    /\ hs' = [hs EXCEPT ![r] = Handle(rq)]
    /\ UNCHANGED <<variant, token>>

\* A request arrives.
Receive(r) == \E rq \in Requests : Arrive(r, rq)

\* The file-list GET is answered.
FetchReturn(r) ==
    /\ hs[r].pc = "fetch"
    /\ \E rsp \in FetchResponses :
         IF FetchFailed(rsp)
         THEN hs' = [hs EXCEPT ![r] = AfterFetchError(Answered(@, rsp))]
         ELSE \E order \in AppOrders(rsp.files) :
                hs' = [hs EXCEPT ![r] = AfterFetchOK(Answered(@, rsp), rsp.files, order)]
    /\ UNCHANGED <<variant, token>>

\* The read of the apps.json on disk returns.
ReadFileReturn(r) ==
    /\ hs[r].pc = "readfile"
    /\ \E disk \in DiskStates : hs' = [hs EXCEPT ![r] = AfterReadFile(@, disk)]
    /\ UNCHANGED <<variant, token>>

\* The pull-request GET of updatePRStatus is answered.
LookupReturn(r) ==
    /\ hs[r].pc = "lookup"
    /\ \E rsp \in LookupResponses : hs' = [hs EXCEPT ![r] = AfterLookup(Answered(@, rsp), rsp)]
    /\ UNCHANGED <<variant, token>>

\* The status POST of updatePRStatus is answered.
PostReturn(r) ==
    /\ hs[r].pc = "post"
    /\ \E rsp \in PlainResponses : hs' = [hs EXCEPT ![r] = AfterPost(Answered(@, rsp), rsp)]
    /\ UNCHANGED <<variant, token>>

\* The closing PATCH of closePullRequest is answered.
CloseReturn(r) ==
    /\ hs[r].pc = "close"
    /\ \E rsp \in PlainResponses :
         hs' = [hs EXCEPT ![r] = AfterClose(Answered(@, rsp), rsp.err \/ rsp.code # StatusOK)]
    /\ UNCHANGED <<variant, token>>

Next ==
    \E r \in Reqs :
        \/ Receive(r)
        \/ FetchReturn(r)
        \/ ReadFileReturn(r)
        \/ LookupReturn(r)
        \/ PostReturn(r)
        \/ CloseReturn(r)

Spec == Init /\ [][Next]_vars

\* Two requests served at once: net/http runs prWebhookHandler for each request
\* in a goroutine of its own, and the steps of the two interleave freely. The
\* pair is followed for an opened and a reopened event, with every file list of
\* FileLists, every order of the changed-apps map and every state of the local
\* apps.json, read in a step of its own; the calls of the pair are answered without error (200, or 201 to
\* the status POST, with a head SHA).
PairReqs == {"r1", "r2"}

PairRequests == {RawJSONRequest(DocOpened), FormRequest(FormContentType, DocReopened)}

InPairScope(h) ==
    /\ \A i \in 1..Len(h.answers) :
          /\ ~ h.answers[i].err
          /\ ~ h.answers[i].decodeErr
          /\ h.answers[i].code \in {StatusOK, StatusCreated}
    /\ (Len(h.answers) >= 2 /\ h.answers[2].code = StatusOK) => h.sha = "abc123"

PairInit ==
    /\ variant \in Variants
    /\ token \in Tokens
    /\ hs = [r \in PairReqs |-> IdleHandler]

PairNext ==
    \E r \in PairReqs :
        \/ \E rq \in PairRequests : Arrive(r, rq)
        \/ FetchReturn(r) /\ InPairScope(hs'[r])
        \/ ReadFileReturn(r)
        \/ LookupReturn(r) /\ InPairScope(hs'[r])
        \/ PostReturn(r) /\ InPairScope(hs'[r])
        \/ CloseReturn(r) /\ InPairScope(hs'[r])

PairSpec == PairInit /\ [][PairNext]_vars

(***************************************************************************)
(* Properties                                                              *)
(***************************************************************************)
\* Vocabulary of the properties: positions in the history of an invocation.
OpIdx(h, kind, fn) == {i \in 1..Len(h.ops) : h.ops[i].kind = kind /\ h.ops[i].fn = fn}

Called(h, fn) == OpIdx(h, "call", fn)

Returned(h, fn) == OpIdx(h, "return", fn)

CallsBy(h, method) == {i \in 1..Len(h.calls) : h.calls[i].method = method}

NoOutboundCall(h) ==
    /\ h.calls = <<>>
    /\ \A fn \in {"fetchPRFiles", "updatePRStatus", "closePullRequest"} : Called(h, fn) = {}

HasForbidden(files) == \E i \in 1..Len(files) : files[i].Filename = "forbidden.txt"

\* The accepted actions as the specification states them for each build.
AcceptedBy(v) == IF v = MainGo THEN {"opened"} ELSE {"opened", "reopened"}

\* C1 (as stated): every response, on every path, has status 200.
C1_AlwaysStatusOK ==
    \A r \in Reqs : hs[r].pc = "done" => hs[r].code = StatusOK

\* C2 (as stated): validatePR returns false when a file is named forbidden.txt and
\* true for every other list, the empty list included.
C2_ValidateRule ==
    \A r \in Reqs :
        hs[r].validated =>
            /\ hs[r].validationPassed = validatePR(hs[r].files)
            /\ hs[r].validationPassed = ~ HasForbidden(hs[r].files)

\* C3: after a successful fetch and a failed validation the handler calls
\* updatePRStatus exactly once, with state "failure", and closePullRequest exactly
\* once, for the same pull request, after updatePRStatus has returned.
C3_FailureThenClose ==
    \A r \in Reqs :
        LET h == hs[r]
            upd == Called(h, "updatePRStatus")
            cls == Called(h, "closePullRequest")
        IN  /\ \A c \in cls : \E u \in Returned(h, "updatePRStatus") : u < c
            /\ (h.pc = "done" /\ h.fetched /\ h.validated /\ ~ h.validationPassed) =>
                 /\ h.ev.Action \in AcceptedBy(variant)
                 /\ h.prNumber # 0
                 /\ Cardinality(upd) = 1
                 /\ \A u \in upd : h.ops[u].arg = "failure"
                 /\ Cardinality(cls) = 1
                 /\ \A c \in cls : h.ops[c].arg = Itoa(h.prNumber)
                 /\ Cardinality(CallsBy(h, "PATCH")) = 1
                 /\ \A i \in CallsBy(h, "PATCH") :
                        /\ h.calls[i].url = PullURL(h.owner, h.repo, h.prNumber)
                        /\ \A j \in CallsBy(h, "POST") : j < i
                 /\ \A j \in CallsBy(h, "POST") :
                        h.calls[j].body = StatusBody("failure", "PR validation failed.")

\* C3 witness: a pull request with forbidden.txt has had its failure status posted
\* and has been closed.
C3_Witness ==
    \E r \in Reqs :
        /\ hs[r].pc = "done"
        /\ HasForbidden(hs[r].files)
        /\ ~ hs[r].validationPassed
        /\ CallsBy(hs[r], "POST") # {}
        /\ CallsBy(hs[r], "PATCH") # {}

\* C4 (as stated): after a successful fetch of a list without forbidden.txt the
\* handler calls updatePRStatus exactly once, with state "success", and never
\* closePullRequest.
C4_SuccessNoClose ==
    \A r \in Reqs :
        LET h == hs[r]
        IN  (h.pc = "done" /\ h.fetched /\ ~ HasForbidden(h.files)) =>
                /\ Cardinality(Called(h, "updatePRStatus")) = 1
                /\ \A u \in Called(h, "updatePRStatus") : h.ops[u].arg = "success"
                /\ Called(h, "closePullRequest") = {}
                /\ CallsBy(h, "PATCH") = {}

\* C5: closePullRequest is called, and the closing PATCH sent, only after
\* validatePR has returned false for the fetched list; never when validation
\* passed, when the fetch failed or when the request was filtered out.
C5_CloseOnlyOnFailure ==
    \A r \in Reqs :
        LET h == hs[r]
        IN  (Called(h, "closePullRequest") # {} \/ CallsBy(h, "PATCH") # {}) =>
                /\ h.fetched
                /\ h.validated
                /\ ~ h.validationPassed
                /\ \A c \in Called(h, "closePullRequest") :
                       \E v \in Returned(h, "validatePR") : v < c /\ h.ops[v].arg = "false"
                /\ \A v \in Returned(h, "validatePR") : h.ops[v].arg = "false"

\* C5 witness: the fetch succeeded, validation passed, the handler is done and
\* has closed nothing.
C5_Witness ==
    \E r \in Reqs :
        /\ hs[r].pc = "done"
        /\ hs[r].validated
        /\ hs[r].validationPassed
        /\ CallsBy(hs[r], "POST") # {}
        /\ Called(hs[r], "closePullRequest") = {}

\* C6: a decoded event whose action is not accepted is answered with a body that
\* contains the action, and no outbound call is made.
C6_IgnoredAction ==
    \A r \in Reqs :
        LET h == hs[r]
        IN  (h.decoded /\ h.ev.Action \notin AcceptedBy(variant)) =>
                /\ h.pc = "done"
                /\ h.body = "Ignoring PR event with action: " \o h.ev.Action
                /\ Contains(h.body, h.ev.Action)
                /\ NoOutboundCall(h)

\* C6 witness: a "closed" event has been answered.
C6_Witness ==
    \E r \in Reqs :
        /\ hs[r].pc = "done"
        /\ hs[r].decoded
        /\ hs[r].ev.Action = "closed"
        /\ hs[r].ev.PullRequest.Number = 42
        /\ hs[r].calls = <<>>

\* C7: an event with an accepted action whose pull_request.number and top-level
\* number are both 0 is answered "No PR number found", and no outbound call is made.
C7_NoNumber ==
    \A r \in Reqs :
        LET h == hs[r]
        IN  (/\ h.decoded
             /\ h.ev.Action \in AcceptedBy(variant)
             /\ h.ev.PullRequest.Number = 0
             /\ h.ev.Number = 0) =>
                /\ h.pc = "done"
                /\ h.body = "No PR number found"
                /\ NoOutboundCall(h)

\* C7 witness: an accepted event without any number has been answered.
C7_Witness ==
    \E r \in Reqs :
        /\ hs[r].pc = "done"
        /\ hs[r].decoded
        /\ hs[r].ev.Action = "opened"
        /\ hs[r].ev.PullRequest.Number = 0
        /\ hs[r].ev.Number = 0
        /\ hs[r].body = "No PR number found"

\* C8: every outbound call of a request is made for pull_request.number when that
\* is not 0, and else for the top-level number; no call is made for number 0.
C8_ResolvedNumber ==
    \A r \in Reqs :
        LET h == hs[r]
            n == IF h.ev.PullRequest.Number # 0 THEN h.ev.PullRequest.Number ELSE h.ev.Number
        IN  (h.calls # <<>> \/ Called(h, "fetchPRFiles") # {}) =>
                /\ n # 0
                /\ h.prNumber = n
                /\ \A i \in Called(h, "fetchPRFiles") \cup Called(h, "closePullRequest") :
                       h.ops[i].arg = Itoa(n)
                /\ \A i \in CallsBy(h, "GET") \cup CallsBy(h, "PATCH") :
                       h.calls[i].url \in {PullURL(h.owner, h.repo, n),
                                           FilesURL(h.owner, h.repo, n)}

\* C8 witness: an event with both numbers set, and different, has reached the fetch.
C8_Witness ==
    \E r \in Reqs :
        /\ hs[r].ev.PullRequest.Number = 42
        /\ hs[r].ev.Number = 7
        /\ CallsBy(hs[r], "GET") # {}

\* C9: when the payload does not decode (malformed JSON, or a form without a
\* payload field or with an empty one) the response has status 200 and the
\* diagnostic body, and no outbound call is made.
C9_DecodeFailure ==
    \A r \in Reqs :
        LET h == hs[r]
        IN  /\ (h.pc # "idle" /\ h.extractFail = "" /\ h.unmarshalErr) =>
                  /\ h.pc = "done"
                  /\ ~ h.decoded
                  /\ h.code = StatusOK
                  /\ h.body = "Webhook received, but could not parse PR event"
                  /\ NoOutboundCall(h)
            /\ (h.pc # "idle" /\ h.extractFail = "" /\ h.payload = "") => h.unmarshalErr
            /\ (h.pc = "done" /\ h.calls = <<>> /\ h.extractFail = "") =>
                  h.unmarshalErr = Unmarshal(h.payload).err

\* C9 witness: a form-encoded request without a payload field has been answered.
C9_Witness ==
    \E r \in Reqs :
        /\ hs[r].pc = "done"
        /\ hs[r].req.contentType = FormContentType
        /\ hs[r].req.body = "other=1"
        /\ hs[r].req.rawQuery = ""
        /\ hs[r].payload = ""
        /\ hs[r].unmarshalErr

\* C10 (as stated): a form-encoded request carrying payload=J, with or without
\* parameters in its Content-Type, is decoded to the event of the raw-JSON request
\* with body J, and goes on as that request does.
C10_FormMatchesRaw ==
    \A r \in Reqs :
        \A ct \in FormContentTypes, d \in Docs :
            (hs[r].pc # "idle" /\ hs[r].req = FormRequest(ct, d)) =>
                /\ hs[r].decoded = ~ Unmarshal(d).err
                /\ hs[r].decoded => hs[r].ev = Unmarshal(d).ev

\* The returns of fn to the handler with an error.
Failed(h, fn) == {i \in Returned(h, fn) : h.ops[i].arg = "error"}

\* The first line of the summary the handler writes last.
SummaryLine(n, status) == "PR #" \o Itoa(n) \o " validation complete. Status: " \o status

\* C11: when updatePRStatus has returned an error the handler goes on: it calls
\* closePullRequest if validation failed, and it ends with status 200 and the
\* "PR #<n> validation complete" summary.
C11_UpdateErrorNonFatal ==
    \A r \in Reqs :
        LET h == hs[r]
        IN  Failed(h, "updatePRStatus") # {} =>
                /\ h.pc \in {"close", "done"}
                /\ h.pc = "close" => ~ h.validationPassed
                /\ ~ h.validationPassed =>
                       /\ Called(h, "closePullRequest") # {}
                       /\ \A c \in Called(h, "closePullRequest") :
                              \A u \in Failed(h, "updatePRStatus") : u < c
                /\ h.pc = "done" =>
                       /\ h.code = StatusOK
                       /\ Contains(h.body, "PR #" \o Itoa(h.prNumber) \o " validation complete")

\* C11 witness: the pull-request lookup was answered 404, the failed pull request
\* was closed all the same and the summary was sent.
C11_Witness ==
    \E r \in Reqs :
        /\ hs[r].pc = "done"
        /\ Failed(hs[r], "updatePRStatus") # {}
        /\ Len(hs[r].answers) = 3
        /\ hs[r].answers[2].code = 404
        /\ CallsBy(hs[r], "PATCH") # {}
        /\ Contains(hs[r].body, SummaryLine(42, "failure"))

\* C12: when fetchPRFiles has failed (transport error, status other than 200, body
\* that does not decode, or a request that could not be built) the response is
\* "Error fetching PR files" and nothing follows: validatePR, updatePRStatus and
\* closePullRequest are not called and no call but the file-list GET was made.
C12_FetchFailure ==
    \A r \in Reqs :
        LET h == hs[r]
        IN  /\ (Len(h.answers) >= 1 /\ ~ h.fetched) => Failed(h, "fetchPRFiles") # {}
            /\ Failed(h, "fetchPRFiles") # {} =>
                /\ h.pc = "done"
                /\ h.code = StatusOK
                /\ h.body = "Error fetching PR files"
                /\ ~ h.fetched /\ ~ h.validated
                /\ \A fn \in {"validatePR", "updatePRStatus", "closePullRequest"} :
                       Called(h, fn) = {}
                /\ Len(h.calls) <= 1
                /\ \A i \in 1..Len(h.calls) :
                       /\ h.calls[i].method = "GET"
                       /\ h.calls[i].url = FilesURL(h.owner, h.repo, h.prNumber)

\* C12 witness: the file-list GET was answered 404 and the request ended there.
C12_Witness ==
    \E r \in Reqs :
        /\ hs[r].pc = "done"
        /\ hs[r].answers = <<[err |-> FALSE, code |-> 404, decodeErr |-> FALSE]>>
        /\ hs[r].body = "Error fetching PR files"

\* The calls of a request that GET its pull request.
Lookups(h) ==
    {i \in CallsBy(h, "GET") : h.calls[i].url = PullURL(h.owner, h.repo, h.prNumber)}

\* Whether call i of the request has been answered with the given status code.
AnsweredWith(h, i, code) ==
    i <= Len(h.answers) /\ ~ h.answers[i].err /\ h.answers[i].code = code

\* C13: updatePRStatus POSTs the status only after its GET of the pull request was
\* answered 200, to the statuses URL of the SHA that GET returned and with the body
\* {state, description, context: "commitvalidator"}; a lookup not answered 200 gives
\* an error and no POST; a POST not answered 201 gives an error; updatePRStatus
\* returns nil only when the POST was answered 201.
C13_LookupThenPost ==
    \A r \in Reqs :
        LET h == hs[r]
            posts == CallsBy(h, "POST")
        IN  /\ \A j \in posts :
                  /\ \E i \in Lookups(h) : i < j /\ AnsweredWith(h, i, StatusOK)
                  /\ \A u \in Called(h, "updatePRStatus") :
                         h.calls[j].body = StatusBody(h.ops[u].arg, h.description)
                  /\ Contains(h.calls[j].body, "\"context\":\"commitvalidator\"")
                  /\ h.calls[j].url = StatusURL(h.owner, h.repo, h.sha)
                  /\ j <= Len(h.answers) =>
                         /\ Returned(h, "updatePRStatus") # {}
                         /\ AnsweredWith(h, j, StatusCreated) <=> Failed(h, "updatePRStatus") = {}
            /\ \A i \in Lookups(h) :
                  (i <= Len(h.answers) /\ ~ AnsweredWith(h, i, StatusOK)) =>
                      /\ posts = {}
                      /\ Failed(h, "updatePRStatus") # {}
            /\ \A u \in Returned(h, "updatePRStatus") \ Failed(h, "updatePRStatus") :
                  \E j \in posts : AnsweredWith(h, j, StatusCreated)
            /\ Called(h, "updatePRStatus") = {} => Lookups(h) = {} /\ posts = {}

\* C13 witness: the lookup was answered 200 with a SHA, the POST went to that SHA
\* and was answered 201, and updatePRStatus returned nil.
C13_Witness ==
    \E r \in Reqs :
        /\ Len(hs[r].answers) >= 3
        /\ AnsweredWith(hs[r], 2, StatusOK)
        /\ AnsweredWith(hs[r], 3, StatusCreated)
        /\ hs[r].sha = "abc123"
        /\ hs[r].calls[3].method = "POST"
        /\ Returned(hs[r], "updatePRStatus") # {}
        /\ Failed(hs[r], "updatePRStatus") = {}

\* C14 (as stated): every outbound call of a request carries the header
\* Authorization: token <GITHUB_TOKEN>.
C14_AllAuthorized ==
    \A r \in Reqs :
        \A i \in 1..Len(hs[r].calls) : hs[r].calls[i].authorization = <<"token " \o token>>

\* C15 (as stated): once the files are fetched, validatePR is called after
\* fetchPRFiles returned and updatePRStatus after validatePR returned, and nothing
\* is written to the caller before updatePRStatus and, when validation failed,
\* closePullRequest have returned.
C15_StepOrder ==
    \A r \in Reqs :
        LET h == hs[r]
        IN  h.fetched =>
                /\ \A v \in Called(h, "validatePR") :
                       \E f \in Returned(h, "fetchPRFiles") : f < v
                /\ \A u \in Called(h, "updatePRStatus") :
                       \E v \in Returned(h, "validatePR") : v < u
                /\ \A w \in OpIdx(h, "write", "Fprintf") :
                       /\ \E u \in Returned(h, "updatePRStatus") : u < w
                       /\ ~ h.validationPassed =>
                              \E c \in Returned(h, "closePullRequest") : c < w

\* C16: a request whose files were fetched ends with a body that contains
\* "PR #<n> validation complete. Status: <s>", n the resolved number and s the state
\* passed to updatePRStatus; s is "failure" exactly when closePullRequest was called
\* for PR n.
C16_SummaryMatchesStatus ==
    \A r \in Reqs :
        LET h == hs[r]
            n == ResolveNumber(h.ev)
        IN  (h.pc = "done" /\ h.fetched) =>
                /\ Cardinality(Called(h, "updatePRStatus")) = 1
                /\ \A u \in Called(h, "updatePRStatus") :
                       /\ h.ops[u].arg \in {"success", "failure"}
                       /\ Contains(h.body, SummaryLine(n, h.ops[u].arg) \o "\n")
                       /\ ~ Contains(h.body, SummaryLine(n, IF h.ops[u].arg = "failure"
                                                             THEN "success" ELSE "failure"))
                       /\ h.ops[u].arg = "failure" <=>
                              \E c \in Called(h, "closePullRequest") : h.ops[c].arg = Itoa(n)
                       /\ h.ops[u].arg = "failure" <=>
                              \E i \in CallsBy(h, "PATCH") :
                                  h.calls[i].url = PullURL(h.owner, h.repo, n)

\* C16 witness: PR 42 with forbidden.txt ended with "Status: failure" in the body
\* and a closing PATCH.
C16_Witness ==
    \E r \in Reqs :
        /\ hs[r].pc = "done"
        /\ hs[r].prNumber = 42
        /\ HasForbidden(hs[r].files)
        /\ Contains(hs[r].body, "PR #42 validation complete. Status: failure")
        /\ \E i \in CallsBy(hs[r], "PATCH") :
               hs[r].calls[i].url = "https://api.github.com/repos/acme/repo/pulls/42"

\* The calls of a request that GET the file list of its pull request.
FileFetches(h) ==
    {i \in CallsBy(h, "GET") : h.calls[i].url = FilesURL(h.owner, h.repo, h.prNumber)}

\* No call of the request was made twice.
NoRetry(h) ==
    /\ Cardinality(FileFetches(h)) <= 1
    /\ Cardinality(Lookups(h)) <= 1
    /\ Cardinality(CallsBy(h, "POST")) <= 1
    /\ Cardinality(CallsBy(h, "PATCH")) <= 1
    /\ CallsBy(h, "GET") = FileFetches(h) \cup Lookups(h)
    /\ Len(h.calls) <= 4

\* The request is waiting for the answer to an outbound call.
InFlight(h) == h.pc \in {"fetch", "lookup", "post", "close"}

\* The request is waiting for the local read of apps.json (ioutil.ReadFile).
Reading(h) == h.pc = "readfile"

C19_SameTarget ==
    \A r \in Reqs :
        LET h == hs[r]
            owner == h.ev.Repository.Owner.Login
            repo  == h.ev.Repository.Name
            n     == ResolveNumber(h.ev)
        IN  \A i \in 1..Len(h.calls) :
                IF h.calls[i].method = "POST"
                THEN /\ h.calls[i].url = StatusURL(owner, repo, h.sha)
                     /\ \E j \in 1..(i - 1) :
                            /\ h.calls[j].method = "GET"
                            /\ h.calls[j].url = PullURL(owner, repo, n)
                            /\ AnsweredWith(h, j, StatusOK)
                     /\ h.sha # ""
                ELSE h.calls[i].url \in {FilesURL(owner, repo, n), PullURL(owner, repo, n)}

\* What a request is given: its payload and what came back from its own calls
\* (the answers, the fetched file list, the head SHA of the lookup).
GivenTo(h) == <<h.req, h.answers, h.fetched, h.files, h.sha>>

\* C17: requests served at once do not touch each other: a step of one request
\* changes nothing of the other and nothing every request reads (the token, the
\* build), and what a request has done (its calls, its response, all of its state)
\* is determined by its own payload and the answers to its own calls, wherever the
\* steps of the other request fell.
C17_Independent ==
    /\ [](\A r, q \in PairReqs : GivenTo(hs[r]) = GivenTo(hs[q]) => hs[r] = hs[q])
    /\ [][/\ token' = token
           /\ variant' = variant
           /\ \A r, q \in PairReqs : (r # q /\ hs'[r] # hs[r]) => hs'[q] = hs[q]]_vars

====
